---- MODULE Spec2Model ----
(***************************************************************************)
(* dataclass_io: DataclassWriter / DataclassReader over one target path.   *)
(*                                                                         *)
(* Text is modelled as what it is: a string is a sequence of one-character *)
(* strings, the file on disk is one such sequence (terminators included),  *)
(* and every conversion (join, split, strip, quoting, newline translation) *)
(* is computed character by character as the Python code computes it.      *)
(***************************************************************************)
EXTENDS Integers, Sequences, FiniteSets, TLC

(***************************************************************************)
(* Characters and Python str operations                                    *)
(***************************************************************************)
TAB == "\t"

NL == "\n"

CR == "\r"

QUOTE == "\""

SPACE == " "

COMMA == ","

HASH == "#"

\* str.strip() with no argument strips these (the ones of the alphabet)
Whitespace == {SPACE, TAB, NL, CR}

EmptyStr == << >>

RECURSIVE lstrip(_)
lstrip(s) ==
    IF s = EmptyStr THEN EmptyStr
    ELSE IF Head(s) \in Whitespace THEN lstrip(Tail(s)) ELSE s

RECURSIVE rstrip(_)
rstrip(s) ==
    IF s = EmptyStr THEN EmptyStr
    ELSE IF s[Len(s)] \in Whitespace THEN rstrip(SubSeq(s, 1, Len(s) - 1)) ELSE s

\* str.strip()
strip(s) == rstrip(lstrip(s))

\* str.startswith(prefix)
startswith(s, prefix) ==
    /\ Len(prefix) <= Len(s)
    /\ SubSeq(s, 1, Len(prefix)) = prefix

\* c in s
contains(s, c) == \E i \in 1..Len(s) : s[i] = c

\* str.split(sep) for a one-character sep: never returns an empty list
RECURSIVE split_from(_, _, _, _)
split_from(s, sep, i, cur) ==
    IF i > Len(s) THEN << cur >>
    ELSE IF s[i] = sep THEN << cur >> \o split_from(s, sep, i + 1, EmptyStr)
    ELSE split_from(s, sep, i + 1, Append(cur, s[i]))

split(s, sep) == split_from(s, sep, 1, EmptyStr)

\* sep.join(parts), sep a string
RECURSIVE join(_, _)
join(sep, parts) ==
    IF parts = << >> THEN EmptyStr
    ELSE IF Len(parts) = 1 THEN parts[1]
    ELSE parts[1] \o sep \o join(sep, Tail(parts))

\* str(n) for an int n >= 0
Digit(d) == CASE d = 0 -> "0" [] d = 1 -> "1" [] d = 2 -> "2" [] d = 3 -> "3"
              [] d = 4 -> "4" [] d = 5 -> "5" [] d = 6 -> "6" [] d = 7 -> "7"
              [] d = 8 -> "8" [] d = 9 -> "9"

RECURSIVE int_to_str(_)
int_to_str(n) ==
    IF n < 10 THEN << Digit(n) >>
    ELSE Append(int_to_str(n \div 10), Digit(n % 10))

Digits == {"0", "1", "2", "3", "4", "5", "6", "7", "8", "9"}

DigitValue(c) == CHOOSE d \in 0..9 : Digit(d) = c

(***************************************************************************)
(* Dataclass types and instances                                           *)
(***************************************************************************)
FieldA == << "a" >>

FieldB == << "b" >>

FieldC == << "c" >>

\* @dataclass class AB: a: str; b: int
AB == [name |-> "AB", is_dataclass |-> TRUE,
       fields |-> << [name |-> FieldA, type |-> "str"],
                     [name |-> FieldB, type |-> "int"] >>]

\* @dataclass class AC: a: str; c: int
AC == [name |-> "AC", is_dataclass |-> TRUE,
       fields |-> << [name |-> FieldA, type |-> "str"],
                     [name |-> FieldC, type |-> "int"] >>]

\* class Plain: a: str   (no @dataclass decorator)
Plain == [name |-> "Plain", is_dataclass |-> FALSE,
          fields |-> << [name |-> FieldA, type |-> "str"] >>]

Types == {AB, AC, Plain}

\* dataclasses.is_dataclass(dataclass_type)
is_dataclass(dataclass_type) == dataclass_type.is_dataclass

\* fieldnames(dataclass_type): [f.name for f in fields(dataclass_type)]
fieldnames(dataclass_type) ==
    [i \in 1..Len(dataclass_type.fields) |-> dataclass_type.fields[i].name]

StrVal(s) == [t |-> "str", v |-> s]

IntVal(n) == [t |-> "int", v |-> n]

\* an instance: its class and its attribute values in declaration order
Instance(dataclass_type, values) == [cls |-> dataclass_type.name, values |-> values]

\* isinstance(dataclass_instance, dataclass_type)
isinstance(dataclass_instance, dataclass_type) ==
    dataclass_instance.cls = dataclass_type.name

IndexOf(seq, x) == CHOOSE i \in 1..Len(seq) : seq[i] = x

\* asdict(dataclass_instance)[fieldname]
attr(dataclass_instance, dataclass_type, fieldname) ==
    dataclass_instance.values[IndexOf(fieldnames(dataclass_type), fieldname)]

(***************************************************************************)
(* csv.writer (dialect excel: quotechar ", doublequote, QUOTE_MINIMAL,     *)
(* lineterminator \r\n)                                                    *)
(***************************************************************************)
LineTerminator == << CR, NL >>

\* str(value) as csv.writer applies it to a non-string field
to_text(value) == IF value.t = "int" THEN int_to_str(value.v) ELSE value.v

RECURSIVE double_quotes(_)
double_quotes(s) ==
    IF s = EmptyStr THEN EmptyStr
    ELSE IF Head(s) = QUOTE THEN << QUOTE, QUOTE >> \o double_quotes(Tail(s))
    ELSE << Head(s) >> \o double_quotes(Tail(s))

\* one field under QUOTE_MINIMAL: quoted when it holds the delimiter, the
\* quotechar or a lineterminator character, or is the empty only field
csv_field(s, delimiter, only_field) ==
    IF \/ contains(s, delimiter) \/ contains(s, QUOTE)
       \/ contains(s, CR) \/ contains(s, NL)
       \/ (s = EmptyStr /\ only_field)
    THEN << QUOTE >> \o double_quotes(s) \o << QUOTE >>
    ELSE s

\* csv.writer(f, delimiter=delimiter).writerow(texts): the characters written
csv_writerow(texts, delimiter) ==
    join(<< delimiter >>,
         [i \in 1..Len(texts) |-> csv_field(texts[i], delimiter, Len(texts) = 1)])
    \o LineTerminator

(***************************************************************************)
(* Text-mode reading (open("r"), newline=None: universal newlines)         *)
(***************************************************************************)
\* \r\n and \r are translated to \n
RECURSIVE universal_newlines(_)
universal_newlines(bytes) ==
    IF bytes = EmptyStr THEN EmptyStr
    ELSE IF Head(bytes) = CR
         THEN IF Len(bytes) >= 2 /\ bytes[2] = NL
              THEN << NL >> \o universal_newlines(Tail(Tail(bytes)))
              ELSE << NL >> \o universal_newlines(Tail(bytes))
         ELSE << Head(bytes) >> \o universal_newlines(Tail(bytes))

\* the lines `for line in f` yields: each keeps its \n, the last may lack one
RECURSIVE lines_from(_, _, _)
lines_from(text, i, cur) ==
    IF i > Len(text) THEN (IF cur = EmptyStr THEN << >> ELSE << cur >>)
    ELSE IF text[i] = NL THEN << Append(cur, NL) >> \o lines_from(text, i + 1, EmptyStr)
    ELSE lines_from(text, i + 1, Append(cur, text[i]))

readlines(bytes) == lines_from(universal_newlines(bytes), 1, EmptyStr)

(***************************************************************************)
(* Header model                                                            *)
(***************************************************************************)
\* Optional[FileHeader] plus the number of lines the loop took from the
\* iterator; found = FALSE is None
NoHeader(consumed) ==
    [found |-> FALSE, preface |-> << >>, fieldnames |-> << >>, consumed |-> consumed]

RECURSIVE get_header_from(_, _, _, _, _)
get_header_from(lines, i, delimiter, comment_prefix, preface) ==
    IF i > Len(lines) THEN NoHeader(Len(lines))
    ELSE IF startswith(lines[i], comment_prefix) \/ strip(lines[i]) = EmptyStr
         THEN get_header_from(lines, i + 1, delimiter, comment_prefix,
                              Append(preface, strip(lines[i])))
         ELSE [found |-> TRUE, preface |-> preface,
               fieldnames |-> split(strip(lines[i]), delimiter),
               consumed |-> i]

\* get_header(reader, delimiter, comment_prefix), reader at its first line
get_header(lines, delimiter, comment_prefix) ==
    get_header_from(lines, 1, delimiter, comment_prefix, << >>)

(***************************************************************************)
(* Exceptions                                                              *)
(***************************************************************************)
\* no exception raised
Ok == [exc |-> "None", msg |-> "", detail |-> << >>]

\* raise exc(msg + ...): detail holds the formatted lines of the message
Raise(exc, msg, detail) == [exc |-> exc, msg |-> msg, detail |-> detail]

Line(label, text) == [label |-> label, text |-> text]

\* the name of the target path as it is formatted into messages
PathText == << "test.txt" >>

NameText(dataclass_type) == << dataclass_type.name >>

CommaSpace == << COMMA, SPACE >>

(***************************************************************************)
(* Validation layer: _lib/assertions.py                                    *)
(* p is the filesystem entry at the path, size its st_size                 *)
(***************************************************************************)
exists(p) == p.kind # "absent"

is_file(p) == p.kind = "file"

\* os.access(path, R_OK) / os.access(path, W_OK)
access_R_OK(p) == exists(p) /\ p.readable

access_W_OK(p) == exists(p) /\ p.writable

assert_file_is_readable(p) ==
    IF ~exists(p)
    THEN Raise("FileNotFoundError", "The input file does not exist", << >>)
    ELSE IF ~is_file(p)
    THEN Raise("IsADirectoryError", "The input file path is a directory", << >>)
    ELSE IF ~access_R_OK(p)
    THEN Raise("PermissionError", "The input file is not readable", << >>)
    ELSE Ok

\* mutant: the kind of the path is tested before the overwrite flag
assert_file_is_writable_kind_first(p, overwrite) ==
    IF exists(p)
    THEN IF ~is_file(p)
         THEN Raise("IsADirectoryError", "The output file path is a directory", << >>)
         ELSE IF ~overwrite
         THEN Raise("FileExistsError", "The output file already exists", << >>)
         ELSE IF ~access_W_OK(p)
         THEN Raise("PermissionError", "The output file is not writable", << >>)
         ELSE Ok
    ELSE IF ~p.parent_exists
         THEN Raise("FileNotFoundError",
                    "The specified directory for the output file path does not exist", << >>)
         ELSE IF ~p.parent_writable
         THEN Raise("PermissionError",
                    "The specified directory for the output file path is not writable", << >>)
         ELSE Ok

assert_file_is_writable(p, overwrite) ==
    IF exists(p)
    THEN IF ~overwrite
         THEN Raise("FileExistsError", "The output file already exists", << >>)
         ELSE IF ~is_file(p)
         THEN Raise("IsADirectoryError", "The output file path is a directory", << >>)
         ELSE IF ~access_W_OK(p)
         THEN Raise("PermissionError", "The output file is not writable", << >>)
         ELSE Ok
    ELSE IF ~p.parent_exists
         THEN Raise("FileNotFoundError",
                    "The specified directory for the output file path does not exist", << >>)
         ELSE IF ~p.parent_writable
         THEN Raise("PermissionError",
                    "The specified directory for the output file path is not writable", << >>)
         ELSE Ok

\* mutant: readability is tested before emptiness
assert_file_is_appendable_size_last(p, size) ==
    IF ~exists(p)
    THEN Raise("FileNotFoundError", "The specified output file does not exist", << >>)
    ELSE IF ~is_file(p)
    THEN Raise("IsADirectoryError", "The specified output file path is a directory", << >>)
    ELSE IF ~access_W_OK(p)
    THEN Raise("PermissionError", "The specified output file is not writable", << >>)
    ELSE IF ~access_R_OK(p)
    THEN Raise("PermissionError", "The specified output file is not readable", << >>)
    ELSE IF size = 0
    THEN Raise("ValueError", "The specified output file is empty", << >>)
    ELSE Ok

assert_file_is_appendable(p, size) ==
    IF ~exists(p)
    THEN Raise("FileNotFoundError", "The specified output file does not exist", << >>)
    ELSE IF ~is_file(p)
    THEN Raise("IsADirectoryError", "The specified output file path is a directory", << >>)
    ELSE IF ~access_W_OK(p)
    THEN Raise("PermissionError", "The specified output file is not writable", << >>)
    ELSE IF size = 0
    THEN Raise("ValueError", "The specified output file is empty", << >>)
    ELSE IF ~access_R_OK(p)
    THEN Raise("PermissionError", "The specified output file is not readable", << >>)
    ELSE Ok

\* assert_file_header_matches_dataclass(file: Path, ...): the header is read
\* from a stream of its own (with file.open("r")), closed before the comparison
assert_file_header_matches_dataclass(bytes, dataclass_type, delimiter, comment_prefix) ==
    LET header == get_header(readlines(bytes), delimiter, comment_prefix) IN
    IF ~header.found
    THEN Raise("ValueError", "Could not find a header in the provided file", << >>)
    ELSE IF header.fieldnames # fieldnames(dataclass_type)
    THEN Raise("ValueError",
               "The provided file does not have the same field names as the provided dataclass",
               << Line("Dataclass", NameText(dataclass_type)),
                  Line("Dataclass fields", join(CommaSpace, fieldnames(dataclass_type))),
                  Line("File fields", join(CommaSpace, header.fieldnames)) >>)
    ELSE Ok

assert_dataclass_is_valid(dataclass_type) ==
    IF ~is_dataclass(dataclass_type)
    THEN Raise("TypeError", "The provided type must be a dataclass",
               << Line("", NameText(dataclass_type)) >>)
    ELSE Ok

\* [f for f in seq if keep(f)]
RECURSIVE SelectNotIn(_, _)
SelectNotIn(seq, others) ==
    IF seq = << >> THEN << >>
    ELSE IF \E j \in 1..Len(others) : others[j] = Head(seq)
         THEN SelectNotIn(Tail(seq), others)
         ELSE << Head(seq) >> \o SelectNotIn(Tail(seq), others)

assert_fieldnames_are_dataclass_attributes(specified_fieldnames, dataclass_type) ==
    LET invalid_fieldnames == SelectNotIn(specified_fieldnames, fieldnames(dataclass_type)) IN
    IF Len(invalid_fieldnames) > 0
    THEN Raise("ValueError",
               "One or more of the specified fields are not attributes on the dataclass",
               << Line("", NameText(dataclass_type)),
                  Line("", join(CommaSpace, invalid_fieldnames)) >>)
    ELSE Ok

(***************************************************************************)
(* csv.DictWriter and DataclassWriter.__init__ / write                     *)
(***************************************************************************)
\* an optional list argument: given = FALSE is None
None == [given |-> FALSE, names |-> << >>]

Some(names) == [given |-> TRUE, names |-> names]

\* mutant: include_fields selects fields but keeps the declared order
_validate_output_fieldnames_declared_order(dataclass_type, include_fields, exclude_fields) ==
    IF include_fields.given /\ exclude_fields.given
    THEN [exc |-> Raise("ValueError",
                        "Only one of include_fields and exclude_fields may be specified, not both.",
                        << >>),
          output_fieldnames |-> << >>]
    ELSE IF exclude_fields.given
    THEN [exc |-> assert_fieldnames_are_dataclass_attributes(exclude_fields.names, dataclass_type),
          output_fieldnames |-> SelectNotIn(fieldnames(dataclass_type), exclude_fields.names)]
    ELSE IF include_fields.given
    THEN [exc |-> assert_fieldnames_are_dataclass_attributes(include_fields.names, dataclass_type),
          output_fieldnames |->
              SelectNotIn(fieldnames(dataclass_type),
                          SelectNotIn(fieldnames(dataclass_type), include_fields.names))]
    ELSE [exc |-> Ok, output_fieldnames |-> fieldnames(dataclass_type)]

\* _validate_output_fieldnames: the exception raised (or Ok) and the list returned
_validate_output_fieldnames(dataclass_type, include_fields, exclude_fields) ==
    IF include_fields.given /\ exclude_fields.given
    THEN [exc |-> Raise("ValueError",
                        "Only one of include_fields and exclude_fields may be specified, not both.",
                        << >>),
          output_fieldnames |-> << >>]
    ELSE IF exclude_fields.given
    THEN [exc |-> assert_fieldnames_are_dataclass_attributes(exclude_fields.names, dataclass_type),
          output_fieldnames |-> SelectNotIn(fieldnames(dataclass_type), exclude_fields.names)]
    ELSE IF include_fields.given
    THEN [exc |-> assert_fieldnames_are_dataclass_attributes(include_fields.names, dataclass_type),
          output_fieldnames |-> include_fields.names]
    ELSE [exc |-> Ok, output_fieldnames |-> fieldnames(dataclass_type)]

\* DictWriter.writeheader(): writerow(dict(zip(fieldnames, fieldnames)))
writeheader(output_fieldnames, delimiter) == csv_writerow(output_fieldnames, delimiter)

\* DataclassWriter.__init__: the exception raised (or Ok), the attributes set
\* on self, and the characters written to fout
DataclassWriter_init(dataclass_type, delimiter, include_fields, exclude_fields, write_header) ==
    LET valid == assert_dataclass_is_valid(dataclass_type)
        v == _validate_output_fieldnames(dataclass_type, include_fields, exclude_fields)
    IN  IF valid # Ok
        THEN [exc |-> valid, _fieldnames |-> << >>, delimiter |-> delimiter, out |-> EmptyStr]
        ELSE IF v.exc # Ok
        THEN [exc |-> v.exc, _fieldnames |-> << >>, delimiter |-> delimiter, out |-> EmptyStr]
        ELSE [exc |-> Ok, _fieldnames |-> v.output_fieldnames, delimiter |-> delimiter,
              out |-> IF write_header THEN writeheader(v.output_fieldnames, delimiter)
                      ELSE EmptyStr]

\* the row DataclassWriter.write hands to DictWriter.writerow, as texts:
\* {fieldname: row[fieldname] for fieldname in self._fieldnames}
row_texts(dataclass_instance, dataclass_type, _fieldnames) ==
    [i \in 1..Len(_fieldnames) |->
        to_text(attr(dataclass_instance, dataclass_type, _fieldnames[i]))]

\* a write to, or a read of, a stream that has been closed
ClosedFile == Raise("ValueError", "I/O operation on closed file.", << >>)

\* mutant: a closed fout is not noticed and the row is written
DataclassWriter_write_unguarded(self, fout, dataclass_instance) ==
    IF ~isinstance(dataclass_instance, self._dataclass_type)
    THEN [exc |-> Raise("ValueError", "Must provide instances of",
                        << Line("", NameText(self._dataclass_type)) >>),
          out |-> EmptyStr]
    ELSE [exc |-> Ok,
          out |-> csv_writerow(row_texts(dataclass_instance, self._dataclass_type,
                                         self._fieldnames),
                               self.delimiter)]

\* mutant: a rejected instance leaves an empty line behind
DataclassWriter_write_partial(self, fout, dataclass_instance) ==
    IF ~isinstance(dataclass_instance, self._dataclass_type)
    THEN [exc |-> Raise("ValueError", "Must provide instances of",
                        << Line("", NameText(self._dataclass_type)) >>),
          out |-> LineTerminator]
    ELSE IF fout.closed
    THEN [exc |-> ClosedFile, out |-> EmptyStr]
    ELSE [exc |-> Ok,
          out |-> csv_writerow(row_texts(dataclass_instance, self._dataclass_type,
                                         self._fieldnames),
                               self.delimiter)]

\* DataclassWriter.write: the exception raised (or Ok) and the characters
\* written.  DictWriter.writerow hands the finished line to fout.write, which
\* raises on a closed stream.
DataclassWriter_write(self, fout, dataclass_instance) ==
    IF ~isinstance(dataclass_instance, self._dataclass_type)
    THEN [exc |-> Raise("ValueError", "Must provide instances of",
                        << Line("", NameText(self._dataclass_type)) >>),
          out |-> EmptyStr]
    ELSE IF fout.closed
    THEN [exc |-> ClosedFile, out |-> EmptyStr]
    ELSE [exc |-> Ok,
          out |-> csv_writerow(row_texts(dataclass_instance, self._dataclass_type,
                                         self._fieldnames),
                               self.delimiter)]

\* mutant: the batch is validated first and a failing batch writes nothing
RECURSIVE DataclassWriter_writeall_atomic(_, _, _)
DataclassWriter_writeall_atomic(self, fout, dataclass_instances) ==
    IF dataclass_instances = << >>
    THEN [exc |-> Ok, out |-> EmptyStr, count |-> 0]
    ELSE LET w == DataclassWriter_write(self, fout, Head(dataclass_instances))
             rest == DataclassWriter_writeall_atomic(self, fout, Tail(dataclass_instances))
         IN  IF w.exc # Ok THEN [exc |-> w.exc, out |-> EmptyStr, count |-> 0]
             ELSE IF rest.exc # Ok THEN rest
             ELSE [exc |-> Ok, out |-> w.out \o rest.out, count |-> rest.count + 1]

\* DataclassWriter.writeall: self.write for each instance in turn; the first
\* exception ends the loop.  count is the number of instances written.
RECURSIVE DataclassWriter_writeall(_, _, _)
DataclassWriter_writeall(self, fout, dataclass_instances) ==
    IF dataclass_instances = << >>
    THEN [exc |-> Ok, out |-> EmptyStr, count |-> 0]
    ELSE LET w == DataclassWriter_write(self, fout, Head(dataclass_instances)) IN
         IF w.exc # Ok THEN [exc |-> w.exc, out |-> EmptyStr, count |-> 0]
         ELSE LET rest == DataclassWriter_writeall(self, fout, Tail(dataclass_instances))
              IN  [exc |-> rest.exc, out |-> w.out \o rest.out, count |-> rest.count + 1]

(***************************************************************************)
(* csv.reader / csv.DictReader (dialect excel, non-strict)                 *)
(***************************************************************************)
\* parser state: st.state, the field being collected, the fields saved
ParserStart == [state |-> "START_RECORD", field |-> EmptyStr, fields |-> << >>]

save_field(st, next_state) ==
    [state |-> next_state, field |-> EmptyStr, fields |-> Append(st.fields, st.field)]

add_char(st, c, next_state) ==
    [state |-> next_state, field |-> Append(st.field, c), fields |-> st.fields]

\* parse_process_char: a line of the text stream holds \n only as its last character
process_char(st, c, delimiter) ==
    CASE st.state \in {"START_RECORD", "START_FIELD"} ->
            IF c = NL
            THEN (IF st.state = "START_RECORD"
                  THEN [st EXCEPT !.state = "EAT_CRNL"]
                  ELSE save_field(st, "EAT_CRNL"))
            ELSE IF c = QUOTE THEN [st EXCEPT !.state = "IN_QUOTED_FIELD"]
            ELSE IF c = delimiter THEN save_field(st, "START_FIELD")
            ELSE add_char(st, c, "IN_FIELD")
      [] st.state = "IN_FIELD" ->
            IF c = NL THEN save_field(st, "EAT_CRNL")
            ELSE IF c = delimiter THEN save_field(st, "START_FIELD")
            ELSE add_char(st, c, "IN_FIELD")
      [] st.state = "IN_QUOTED_FIELD" ->
            IF c = QUOTE THEN [st EXCEPT !.state = "QUOTE_IN_QUOTED_FIELD"]
            ELSE add_char(st, c, "IN_QUOTED_FIELD")
      [] st.state = "QUOTE_IN_QUOTED_FIELD" ->
            IF c = QUOTE THEN add_char(st, c, "IN_QUOTED_FIELD")
            ELSE IF c = delimiter THEN save_field(st, "START_FIELD")
            ELSE IF c = NL THEN save_field(st, "EAT_CRNL")
            ELSE add_char(st, c, "IN_FIELD")
      [] st.state = "EAT_CRNL" -> st

\* parse_process_char(EOL) at the end of each line
process_eol(st) ==
    CASE st.state \in {"START_RECORD", "EAT_CRNL"} -> [st EXCEPT !.state = "START_RECORD"]
      [] st.state \in {"START_FIELD", "IN_FIELD", "QUOTE_IN_QUOTED_FIELD"} ->
            save_field(st, "START_RECORD")
      [] st.state = "IN_QUOTED_FIELD" -> st

RECURSIVE process_line(_, _, _, _)
process_line(st, line, i, delimiter) ==
    IF i > Len(line) THEN process_eol(st)
    ELSE process_line(process_char(st, line[i], delimiter), line, i + 1, delimiter)

\* Reader_iternext: lines are taken until a record is complete; pos counts the
\* lines taken from the stream so far.  stop = TRUE is StopIteration.
RECURSIVE csv_record(_, _, _, _)
csv_record(lines, pos, delimiter, st) ==
    IF pos >= Len(lines)
    THEN IF st.field # EmptyStr \/ st.state = "IN_QUOTED_FIELD"
         THEN [stop |-> FALSE, row |-> Append(st.fields, st.field), pos |-> pos]
         ELSE [stop |-> TRUE, row |-> << >>, pos |-> pos]
    ELSE LET st2 == process_line(st, lines[pos + 1], 1, delimiter) IN
         IF st2.state = "START_RECORD"
         THEN [stop |-> FALSE, row |-> st2.fields, pos |-> pos + 1]
         ELSE csv_record(lines, pos + 1, delimiter, st2)

\* DictReader.__next__ up to the row list: rows that are [] are skipped
RECURSIVE DictReader_next(_, _, _)
DictReader_next(lines, pos, delimiter) ==
    LET r == csv_record(lines, pos, delimiter, ParserStart) IN
    IF ~r.stop /\ r.row = << >> THEN DictReader_next(lines, r.pos, delimiter) ELSE r

(***************************************************************************)
(* DataclassReader                                                         *)
(***************************************************************************)
\* a value of the row dict: text, or the restval None of a missing column
Missing == [missing |-> TRUE, text |-> EmptyStr]

Present(text) == [missing |-> FALSE, text |-> text]

\* dict(zip(fieldnames, row)) with restval: the value under the i-th fieldname
row_value(row, i) == IF i <= Len(row) THEN Present(row[i]) ELSE Missing

RECURSIVE digits_value(_, _)
digits_value(s, acc) ==
    IF s = EmptyStr THEN acc
    ELSE digits_value(Tail(s), acc * 10 + DigitValue(Head(s)))

\* field.type(value): str(value) and int(value)
coerce(type, value) ==
    IF type = "str"
    THEN [exc |-> Ok,
          value |-> StrVal(IF value.missing THEN << "N", "o", "n", "e" >> ELSE value.text)]
    ELSE IF value.missing
    THEN [exc |-> Raise("TypeError", "int() argument must be a string", << >>),
          value |-> IntVal(0)]
    ELSE LET t == strip(value.text) IN
         IF t # EmptyStr /\ \A i \in 1..Len(t) : t[i] \in Digits
         THEN [exc |-> Ok, value |-> IntVal(digits_value(t, 0))]
         ELSE [exc |-> Raise("ValueError", "invalid literal for int() with base 10", << >>),
               value |-> IntVal(0)]

\* DataclassReader._row_to_dataclass: fields are coerced in declaration order,
\* the first failure is the exception raised
_row_to_dataclass(row, dataclass_type) ==
    LET n == Len(dataclass_type.fields)
        c == [i \in 1..n |-> coerce(dataclass_type.fields[i].type, row_value(row, i))]
        bad == {i \in 1..n : c[i].exc # Ok}
    IN  IF bad # {}
        THEN [exc |-> c[CHOOSE i \in bad : \A j \in bad : i <= j].exc,
              instance |-> Instance(dataclass_type, << >>)]
        ELSE [exc |-> Ok,
              instance |-> Instance(dataclass_type, [i \in 1..n |-> c[i].value])]

\* DataclassReader._get_header(self._fin)
_get_header(lines, delimiter, header_comment_char) ==
    get_header_from(lines, 1, delimiter, header_comment_char, << >>)

\* dataclass_io.lib.assert_readable_file(path)
assert_readable_file(p) == assert_file_is_readable(p)

\* dataclass_io.lib.assert_readable_dataclass(dataclass_type)
assert_readable_dataclass(dataclass_type) == assert_dataclass_is_valid(dataclass_type)

(***************************************************************************)
(* State                                                                   *)
(***************************************************************************)
VARIABLES
    path,      \* the filesystem entry at the target path
    disk,      \* the characters of the file on disk
    streams,   \* every stream opened on the target so far, in order
    writer,    \* the DataclassWriter yielded by DataclassWriter.open
    reader,    \* the DataclassReader constructed
    result,    \* the last operation and the exception it raised (or Ok)
    wcall,     \* arguments of the DataclassWriter.open call, and the state it found
    rcall,     \* arguments of the DataclassReader call
    written,   \* instances written successfully in the writer's scope, in order
    records,   \* instances returned by the reader's iteration, in order
    pc         \* where the calling program is

vars == << path, disk, streams, writer, reader, result, wcall, rcall, written, records, pc >>

\* rows written in one writer scope
MaxWrites == 2

\* default of `delimiter` in DataclassWriter.__init__ and DataclassReader.__init__
DefaultDelimiter == TAB

DefaultCommentPrefix == << HASH >>

(***************************************************************************)
(* Inputs                                                                  *)
(***************************************************************************)
Entry(kind, readable, writable, parent_exists, parent_writable) ==
    [kind |-> kind, readable |-> readable, writable |-> writable,
     parent_exists |-> parent_exists, parent_writable |-> parent_writable]

\* file contents the target may hold before the program runs
InitialContents ==
    { EmptyStr,
      << "a", TAB, "b", NL >>,
      << "a", TAB, "b", NL, "x", TAB, "1", NL >>,
      << "b", NL >>,
      << "a", COMMA, "b", NL >>,
      << HASH, "c", NL, NL, "a", TAB, "b", NL >>,
      << HASH, "c", NL >>,
      << "a", TAB, "b" >>,
      << "a", TAB, "b", NL, "x", TAB, "1", TAB, "9", NL >>,
      << "a", TAB, "b", NL, "x", TAB, "1", NL, "y", TAB, "z", NL, "w", TAB, "2", NL >>,
      << SPACE, NL, "a", TAB, "b", TAB, NL >> }

InitialEntries ==
    { Entry("absent", FALSE, FALSE, TRUE, TRUE),
      Entry("absent", FALSE, FALSE, TRUE, FALSE),
      Entry("absent", FALSE, FALSE, FALSE, FALSE),
      Entry("dir", TRUE, TRUE, TRUE, TRUE),
      Entry("dir", FALSE, FALSE, TRUE, TRUE) }
    \cup { Entry("file", r, w, TRUE, TRUE) : r \in BOOLEAN, w \in BOOLEAN }

Modes == {"write", "append", "update"}

Delimiters == {TAB, COMMA}

FieldLists ==
    {None, Some(<< FieldB >>), Some(<< FieldB, FieldA >>), Some(<< FieldC >>),
     Some(<< FieldB, FieldB >>)}

Instances ==
    { Instance(AB, << StrVal(<< "x" >>), IntVal(1) >>),
      Instance(AB, << StrVal(<< "y", COMMA, "z" >>), IntVal(12) >>),
      Instance(AC, << StrVal(<< "x" >>), IntVal(1) >>) }

\* the iterables handed to writeall: none, one, two in both orders, an
\* instance of another type first, last and in the middle
Batches ==
    LET x == Instance(AB, << StrVal(<< "x" >>), IntVal(1) >>)
        y == Instance(AB, << StrVal(<< "y", COMMA, "z" >>), IntVal(12) >>)
        c == Instance(AC, << StrVal(<< "x" >>), IntVal(1) >>)
    IN  { << >>, << x >>, << c >>, << x, y >>, << y, x >>, << c, x >>, << x, c >>,
          << x, c, y >> }

(***************************************************************************)
(* Streams                                                                 *)
(***************************************************************************)
\* a stream just opened: buf is what was written and not yet flushed,
\* closes counts the close() calls made on it
Open(mode) == [mode |-> mode, closed |-> FALSE, buf |-> EmptyStr, closes |-> 0]

\* a stream opened and closed again by a with block
OpenedAndClosed(mode) == [mode |-> mode, closed |-> TRUE, buf |-> EmptyStr, closes |-> 1]

\* stream.close(): a second close of a closed stream does nothing more
close(stream) ==
    [stream EXCEPT !.closed = TRUE, !.buf = EmptyStr, !.closes = stream.closes + 1]

\* what close() flushes to the file
flushed(stream) == IF stream.closed THEN EmptyStr ELSE stream.buf

\* WriteMode(mode).abbreviation
abbreviation(mode) == IF mode = "write" THEN "w" ELSE "a"

NoWriter ==
    [exists |-> FALSE, _dataclass_type |-> Plain, _fieldnames |-> << >>,
     delimiter |-> DefaultDelimiter, _fout |-> 0]

NoReader ==
    [exists |-> FALSE, dataclass_type |-> Plain, delimiter |-> DefaultDelimiter,
     header_comment_char |-> DefaultCommentPrefix, _fin |-> 0, pos |-> 0,
     _header |-> NoHeader(0)]

NoCall ==
    [made |-> FALSE, dataclass_type |-> Plain, mode |-> "write", overwrite |-> TRUE,
     delimiter |-> DefaultDelimiter, comment_prefix |-> DefaultCommentPrefix,
     include_fields |-> None, exclude_fields |-> None,
     path_before |-> Entry("absent", FALSE, FALSE, FALSE, FALSE),
     disk_before |-> EmptyStr, streams_before |-> 0]

Init ==
    /\ path \in InitialEntries
    /\ disk \in (IF path.kind = "file" THEN InitialContents ELSE {EmptyStr})
    /\ streams = << >>
    /\ writer = NoWriter
    /\ reader = NoReader
    /\ result = [op |-> "none", exc |-> Ok]
    /\ wcall = NoCall
    /\ rcall = NoCall
    /\ written = << >>
    /\ records = << >>
    /\ pc = "start"

(***************************************************************************)
(* assert_file_is_writable called on the target by itself                  *)
(***************************************************************************)
\* the function asks the filesystem (exists, is_file, access) and changes nothing
AssertFileIsWritable(overwrite) ==
    /\ pc = "start"
    /\ result' = [op |-> "assert_file_is_writable",
                  exc |-> assert_file_is_writable(path, overwrite)]
    /\ UNCHANGED << path, disk, streams, writer, reader, wcall, rcall, written, records, pc >>

(***************************************************************************)
(* DataclassWriter.open, write and the exit of its scope                   *)
(***************************************************************************)
\* mutant: in APPEND mode the header is compared before the file is checked
open_checks_header_first(p, bytes, dataclass_type, mode, overwrite, delimiter, comment_prefix) ==
    IF mode \notin {"write", "append"}
    THEN [exc |-> Raise("ValueError", "mode must be either 'write' or 'append'", << >>),
          header_read |-> FALSE]
    ELSE IF assert_dataclass_is_valid(dataclass_type) # Ok
    THEN [exc |-> assert_dataclass_is_valid(dataclass_type), header_read |-> FALSE]
    ELSE IF mode = "write"
    THEN [exc |-> assert_file_is_writable(p, overwrite), header_read |-> FALSE]
    ELSE IF assert_file_header_matches_dataclass(bytes, dataclass_type,
                                                 delimiter, comment_prefix) # Ok
    THEN [exc |-> assert_file_header_matches_dataclass(bytes, dataclass_type,
                                                       delimiter, comment_prefix),
          header_read |-> TRUE]
    ELSE [exc |-> assert_file_is_appendable(p, Len(bytes)), header_read |-> TRUE]

\* DataclassWriter.open up to the opening of fout: the first exception raised
\* (or Ok); header_read tells that assert_file_header_matches_dataclass ran,
\* which opens the file for reading and closes it again
open_checks(p, bytes, dataclass_type, mode, overwrite, delimiter, comment_prefix) ==
    IF mode \notin {"write", "append"}
    THEN [exc |-> Raise("ValueError", "mode must be either 'write' or 'append'", << >>),
          header_read |-> FALSE]
    ELSE IF assert_dataclass_is_valid(dataclass_type) # Ok
    THEN [exc |-> assert_dataclass_is_valid(dataclass_type), header_read |-> FALSE]
    ELSE IF mode = "write"
    THEN [exc |-> assert_file_is_writable(p, overwrite), header_read |-> FALSE]
    ELSE IF assert_file_is_appendable(p, Len(bytes)) # Ok
    THEN [exc |-> assert_file_is_appendable(p, Len(bytes)), header_read |-> FALSE]
    ELSE [exc |-> assert_file_header_matches_dataclass(bytes, dataclass_type,
                                                       delimiter, comment_prefix),
          header_read |-> TRUE]

\* mutant: the header is written in APPEND mode too
open_construct_always_header(dataclass_type, mode, delimiter, include_fields, exclude_fields) ==
    DataclassWriter_init(dataclass_type, DefaultDelimiter, include_fields, exclude_fields,
                         TRUE)

\* the constructor call of open(): cls(fout=fout, dataclass_type=dataclass_type,
\* write_header=(write_mode is WriteMode.WRITE), **kwds).  kwds holds
\* include_fields and exclude_fields; open's own delimiter is not among the
\* arguments, so the constructor's default applies.
open_construct(dataclass_type, mode, delimiter, include_fields, exclude_fields) ==
    DataclassWriter_init(dataclass_type, DefaultDelimiter, include_fields, exclude_fields,
                         mode = "write")

\* mutant: no finally clause, fout is left open
open_finally_missing(fout) == fout

\* finally: fout.close(), in DataclassWriter.open
open_finally(fout) == close(fout)

\* filepath.open("w") creates the file or truncates it; open("a") leaves it
opened_entry(p, mode) ==
    IF mode = "write" /\ ~exists(p)
    THEN [p EXCEPT !.kind = "file", !.readable = TRUE, !.writable = TRUE]
    ELSE p

opened_disk(bytes, mode) == IF mode = "write" THEN EmptyStr ELSE bytes

WriterOpen(dataclass_type, mode, overwrite, delimiter, comment_prefix, include_fields, exclude_fields) ==
    /\ pc = "start"
    /\ LET chk == open_checks(path, disk, dataclass_type, mode, overwrite,
                              delimiter, comment_prefix)
           probe == IF chk.header_read THEN << OpenedAndClosed("r") >> ELSE << >>
           w == open_construct(dataclass_type, mode, delimiter, include_fields, exclude_fields)
           fout == Len(streams) + Len(probe) + 1
       IN  /\ wcall' = [made |-> TRUE, dataclass_type |-> dataclass_type, mode |-> mode,
                        overwrite |-> overwrite, delimiter |-> delimiter,
                        comment_prefix |-> comment_prefix,
                        include_fields |-> include_fields,
                        exclude_fields |-> exclude_fields,
                        path_before |-> path, disk_before |-> disk,
                        streams_before |-> Len(streams)]
           /\ IF chk.exc # Ok
              THEN /\ streams' = streams \o probe
                   /\ result' = [op |-> "Writer.open", exc |-> chk.exc]
                   /\ pc' = "done"
                   /\ UNCHANGED << path, disk, writer >>
              ELSE /\ path' = opened_entry(path, mode)
                   /\ disk' = opened_disk(disk, mode)
                   /\ result' = [op |-> "Writer.open", exc |-> w.exc]
                   /\ IF w.exc # Ok
                      THEN \* finally: fout.close()
                           /\ streams' = streams \o probe
                                         \o << open_finally(Open(abbreviation(mode))) >>
                           /\ writer' = NoWriter
                           /\ pc' = "done"
                      ELSE /\ streams' = streams \o probe
                                         \o << [Open(abbreviation(mode)) EXCEPT !.buf = w.out] >>
                           /\ writer' = [exists |-> TRUE,
                                         _dataclass_type |-> dataclass_type,
                                         _fieldnames |-> w._fieldnames,
                                         delimiter |-> w.delimiter,
                                         _fout |-> fout]
                           /\ pc' = "writer"
    /\ UNCHANGED << reader, rcall, written, records >>

\* writer.write(...): inside the block, or after it on the writer kept by the caller
Write(dataclass_instance) ==
    /\ pc \in {"writer", "after_writer"}
    /\ Len(written) < MaxWrites
    /\ LET r == DataclassWriter_write(writer, streams[writer._fout], dataclass_instance) IN
           /\ streams' = [streams EXCEPT ![writer._fout].buf = @ \o r.out]
           /\ written' = IF r.exc = Ok THEN Append(written, dataclass_instance) ELSE written
           /\ result' = [op |-> "write", exc |-> r.exc]
    /\ UNCHANGED << path, disk, writer, reader, wcall, rcall, records, pc >>

\* writer.writeall(...)
WriteAll(dataclass_instances) ==
    /\ pc \in {"writer", "after_writer"}
    /\ Len(written) + Len(dataclass_instances) <= MaxWrites
    /\ LET r == DataclassWriter_writeall(writer, streams[writer._fout], dataclass_instances) IN
           /\ streams' = [streams EXCEPT ![writer._fout].buf = @ \o r.out]
           /\ written' = written \o SubSeq(dataclass_instances, 1, r.count)
           /\ result' = [op |-> "writeall", exc |-> r.exc, count |-> r.count]
    /\ UNCHANGED << path, disk, writer, reader, wcall, rcall, records, pc >>

\* ways a with block is left
Exits == {"completed", "returned", "raised"}

BlockException == Raise("Exception", "raised inside the block", << >>)

\* the block under `with DataclassWriter.open(...)` is left: the generator's
\* finally clause closes fout, which flushes its buffer
WriterExit(how) ==
    /\ pc = "writer"
    /\ disk' = disk \o flushed(streams[writer._fout])
    /\ streams' = [streams EXCEPT ![writer._fout] = open_finally(@)]
    /\ result' = [op |-> "Writer.exit",
                  exc |-> IF how = "raised" THEN BlockException ELSE Ok]
    /\ pc' = IF how = "raised" THEN "done" ELSE "after_writer"
    /\ UNCHANGED << path, writer, reader, wcall, rcall, written, records >>

(***************************************************************************)
(* DataclassReader: construction, iteration and the exit of its scope      *)
(***************************************************************************)
\* DataclassReader.__init__: the first exception raised (or Ok), whether
\* self._fin was opened, and the header read
DataclassReader_init(p, bytes, dataclass_type, delimiter, header_comment_char) ==
    LET header == _get_header(readlines(bytes), delimiter, header_comment_char) IN
    IF assert_readable_file(p) # Ok
    THEN [exc |-> assert_readable_file(p), opened |-> FALSE, _header |-> NoHeader(0)]
    ELSE IF assert_readable_dataclass(dataclass_type) # Ok
    THEN [exc |-> assert_readable_dataclass(dataclass_type), opened |-> FALSE,
          _header |-> NoHeader(0)]
    ELSE IF ~is_dataclass(dataclass_type)
    THEN [exc |-> Raise("TypeError", "The provided type must be a dataclass",
                        << Line("", NameText(dataclass_type)) >>),
          opened |-> FALSE, _header |-> NoHeader(0)]
    ELSE IF ~header.found
    THEN [exc |-> Raise("ValueError", "Could not find a header in the provided file",
                        << Line("", PathText) >>),
          opened |-> TRUE, _header |-> header]
    ELSE IF header.fieldnames # fieldnames(dataclass_type)
    THEN [exc |-> Raise("ValueError",
                        "The provided file does not have the same field names as the provided dataclass",
                        << Line("Dataclass", NameText(dataclass_type)),
                           Line("File", PathText),
                           Line("Dataclass fields", NameText(dataclass_type)),
                           Line("File", PathText) >>),
          opened |-> TRUE, _header |-> header]
    ELSE [exc |-> Ok, opened |-> TRUE, _header |-> header]

ReaderInit(dataclass_type, delimiter, header_comment_char) ==
    /\ pc \in {"start", "after_writer"}
    /\ LET r == DataclassReader_init(path, disk, dataclass_type, delimiter,
                                     header_comment_char)
       IN  /\ rcall' = [NoCall EXCEPT !.made = TRUE, !.dataclass_type = dataclass_type,
                                      !.mode = "read", !.delimiter = delimiter,
                                      !.comment_prefix = header_comment_char,
                                      !.path_before = path, !.disk_before = disk,
                                      !.streams_before = Len(streams)]
           \* self._fin = path.open("r"): nothing closes it when __init__ raises
           /\ streams' = IF r.opened THEN Append(streams, Open("r")) ELSE streams
           /\ reader' = IF r.exc = Ok
                        THEN [exists |-> TRUE, dataclass_type |-> dataclass_type,
                              delimiter |-> delimiter,
                              header_comment_char |-> header_comment_char,
                              _fin |-> Len(streams) + 1, pos |-> r._header.consumed,
                              _header |-> r._header]
                        ELSE NoReader
           /\ result' = [op |-> "Reader", exc |-> r.exc]
           /\ pc' = IF r.exc = Ok THEN "reader" ELSE "done"
    /\ UNCHANGED << path, disk, writer, wcall, written, records >>

StopIteration == Raise("StopIteration", "", << >>)

\* mutant: a closed _fin reads as an exhausted one
DataclassReader_next_closed_is_end(self, _fin, lines) ==
    LET r == DictReader_next(lines, self.pos, self.delimiter)
        d == _row_to_dataclass(r.row, self.dataclass_type)
    IN  IF _fin.closed \/ r.stop
        THEN [exc |-> StopIteration, pos |-> IF _fin.closed THEN self.pos ELSE r.pos,
              instance |-> d.instance]
        ELSE [exc |-> d.exc, pos |-> r.pos, instance |-> d.instance]

\* mutant: a row that cannot be converted is passed over silently
RECURSIVE DataclassReader_next_skips_bad_rows(_, _, _)
DataclassReader_next_skips_bad_rows(self, _fin, lines) ==
    LET r == DictReader_next(lines, self.pos, self.delimiter)
        d == _row_to_dataclass(r.row, self.dataclass_type)
    IN  IF _fin.closed
        THEN [exc |-> ClosedFile, pos |-> self.pos, instance |-> d.instance]
        ELSE IF r.stop
        THEN [exc |-> StopIteration, pos |-> r.pos, instance |-> d.instance]
        ELSE IF d.exc # Ok
        THEN DataclassReader_next_skips_bad_rows([self EXCEPT !.pos = r.pos], _fin, lines)
        ELSE [exc |-> d.exc, pos |-> r.pos, instance |-> d.instance]

\* DataclassReader.__next__: row = next(self._reader), then
\* self._row_to_dataclass(row).  The csv reader asks _fin for its next line,
\* which raises on a closed stream.  pos is the position of _fin afterwards.
DataclassReader_next(self, _fin, lines) ==
    LET r == DictReader_next(lines, self.pos, self.delimiter)
        d == _row_to_dataclass(r.row, self.dataclass_type)
    IN  IF _fin.closed
        THEN [exc |-> ClosedFile, pos |-> self.pos, instance |-> d.instance]
        ELSE IF r.stop
        THEN [exc |-> StopIteration, pos |-> r.pos, instance |-> d.instance]
        ELSE [exc |-> d.exc, pos |-> r.pos, instance |-> d.instance]

\* next(reader): inside the block, or after it on the reader kept by the caller
ReaderNext ==
    /\ pc \in {"reader", "after_reader"}
    /\ LET r == DataclassReader_next(reader, streams[reader._fin], readlines(disk)) IN
           /\ reader' = [reader EXCEPT !.pos = r.pos]
           /\ result' = [op |-> "next", exc |-> r.exc]
           /\ records' = IF r.exc = Ok THEN Append(records, r.instance) ELSE records
    /\ UNCHANGED << path, disk, streams, writer, wcall, rcall, written, pc >>

\* DataclassReader.__exit__: self._fin.close()
DataclassReader_exit(_fin) == close(_fin)

\* the block under `with DataclassReader(...) as reader` is left
ReaderExit(how) ==
    /\ pc = "reader"
    /\ streams' = [streams EXCEPT ![reader._fin] = DataclassReader_exit(@)]
    /\ result' = [op |-> "Reader.exit",
                  exc |-> IF how = "raised" THEN BlockException ELSE Ok]
    /\ pc' = IF how = "raised" THEN "done" ELSE "after_reader"
    /\ UNCHANGED << path, disk, writer, reader, wcall, rcall, written, records >>

(***************************************************************************)
(* The calling program: at most one writer scope, then at most one reader  *)
(* scope.  An exception that leaves DataclassWriter.open, the constructor  *)
(* of the reader or a with block ends the program (pc = "done"); one       *)
(* raised by write or by an iteration step may be caught inside the block. *)
(***************************************************************************)
Next ==
    \/ \E overwrite \in BOOLEAN : AssertFileIsWritable(overwrite)
    \/ \E dataclass_type \in Types, mode \in Modes, overwrite \in BOOLEAN,
          delimiter \in Delimiters, include_fields \in FieldLists,
          exclude_fields \in FieldLists :
            WriterOpen(dataclass_type, mode, overwrite, delimiter, DefaultCommentPrefix,
                       include_fields, exclude_fields)
    \/ \E dataclass_instance \in Instances : Write(dataclass_instance)
    \/ \E dataclass_instances \in Batches : WriteAll(dataclass_instances)
    \/ \E how \in Exits : WriterExit(how)
    \/ \E dataclass_type \in Types, delimiter \in Delimiters :
            ReaderInit(dataclass_type, delimiter, DefaultCommentPrefix)
    \/ ReaderNext
    \/ \E how \in Exits : ReaderExit(how)

Spec == Init /\ [][Next]_vars

(***************************************************************************)
(* Vocabulary of the properties                                            *)
(***************************************************************************)
\* the spec's failure kinds, as the exceptions the code raises
IsNotFound(e) == e.exc = "FileNotFoundError"

IsIsDirectory(e) == e.exc = "IsADirectoryError"

IsPermissionDenied(e) == e.exc = "PermissionError"

IsEmptyFile(e) == e.exc = "ValueError" /\ e.msg = "The specified output file is empty"

IsNoHeader(e) ==
    e.exc = "ValueError" /\ e.msg \in {"Could not find a header in the provided file"}

IsFieldMismatch(e) ==
    /\ e.exc = "ValueError"
    /\ e.msg = "The provided file does not have the same field names as the provided dataclass"

IsConflictingProjection(e) ==
    /\ e.exc = "ValueError"
    /\ e.msg = "Only one of include_fields and exclude_fields may be specified, not both."

\* the stream of the writer has been closed: its scope has been left
WriterClosed == writer.exists /\ streams[writer._fout].closed

\* DataclassWriter.open returned a writer for a call in this mode
OpenedIn(mode) == wcall.made /\ wcall.mode = mode /\ writer.exists

\* what a writer with delimiter d writes for the instances written so far
RECURSIVE rows_output(_, _)
rows_output(instances, d) ==
    IF instances = << >> THEN EmptyStr
    ELSE csv_writerow(row_texts(Head(instances), writer._dataclass_type, writer._fieldnames), d)
         \o rows_output(Tail(instances), d)

\* everything written to the file so far: on disk or still in the writer's buffer
FileText == disk \o flushed(streams[writer._fout])

(***************************************************************************)
(* C1  After a successful open in WRITE mode, k successful writes and the  *)
(* exit of the scope, the file read as text is exactly the header line     *)
(* (the projection joined by the delimiter given to open) followed by the  *)
(* k row lines in call order, and nothing of the previous content.         *)
(***************************************************************************)
C1_WriteModeContent ==
    (OpenedIn("write") /\ WriterClosed) =>
        universal_newlines(disk) =
            universal_newlines(writeheader(writer._fieldnames, wcall.delimiter)
                               \o rows_output(written, wcall.delimiter))

\* the same statement for calls that leave the delimiter at its default: holds
C1_WriteModeContentDefaultDelimiter ==
    (OpenedIn("write") /\ WriterClosed /\ wcall.delimiter = DefaultDelimiter) =>
        /\ universal_newlines(disk) =
              universal_newlines(writeheader(writer._fieldnames, wcall.delimiter)
                                 \o rows_output(written, wcall.delimiter))
        /\ Len(readlines(disk)) = 1 + Len(written)

(***************************************************************************)
(* C2  Round trip: records written in WRITE mode with the full projection  *)
(* and a delimiter that occurs in no field value, then read with the same  *)
(* schema and delimiter, come back equal, as many and in the same order.   *)
(***************************************************************************)
DelimiterInValues(instances, d) ==
    \E i \in 1..Len(instances) : \E j \in 1..Len(instances[i].values) :
        contains(to_text(instances[i].values[j]), d)

RoundTripCase ==
    /\ OpenedIn("write") /\ WriterClosed
    /\ ~wcall.include_fields.given /\ ~wcall.exclude_fields.given
    /\ rcall.made
    /\ access_R_OK(rcall.path_before)
    /\ rcall.dataclass_type = wcall.dataclass_type
    /\ rcall.delimiter = wcall.delimiter
    /\ ~DelimiterInValues(written, wcall.delimiter)

ReadToEnd == result = [op |-> "next", exc |-> StopIteration]

C2_RoundTrip ==
    RoundTripCase =>
        /\ reader.exists
        /\ ReadToEnd => records = written

\* the round trip for calls that leave the delimiter at its default: holds
C2_RoundTripDefaultDelimiter ==
    (RoundTripCase /\ wcall.delimiter = DefaultDelimiter) =>
        /\ reader.exists
        /\ ReadToEnd => records = written

(***************************************************************************)
(* C3  In APPEND mode the header of the existing file is compared with the *)
(* writer's projection (after include_fields / exclude_fields), not with   *)
(* the full schema: the open succeeds when they are equal and fails with   *)
(* FieldMismatch when they differ, and then no stream is opened for        *)
(* appending.                                                              *)
(***************************************************************************)
\* the projection the call asks for
Projection(call) ==
    _validate_output_fieldnames(call.dataclass_type, call.include_fields,
                                call.exclude_fields)

\* the header of the file the call found
HeaderBefore(call) ==
    get_header(readlines(call.disk_before), call.delimiter, call.comment_prefix)

\* an APPEND call whose every check other than the header comparison passes
AppendCase ==
    /\ result.op = "Writer.open"
    /\ wcall.mode = "append"
    /\ is_dataclass(wcall.dataclass_type)
    /\ Projection(wcall).exc = Ok
    /\ assert_file_is_appendable(wcall.path_before, Len(wcall.disk_before)) = Ok
    /\ HeaderBefore(wcall).found

NoAppendStream == \A i \in 1..Len(streams) : streams[i].mode # "a"

C3_AppendComparesProjection ==
    AppendCase =>
        IF HeaderBefore(wcall).fieldnames = Projection(wcall).output_fieldnames
        THEN result.exc = Ok
        ELSE IsFieldMismatch(result.exc) /\ NoAppendStream

(***************************************************************************)
(* C4  A call with both include_fields and exclude_fields fails with       *)
(* ConflictingProjection before any I/O: no stream has been opened on the  *)
(* target and the target is as it was, in WRITE and in APPEND mode.        *)
(***************************************************************************)
\* both lists given, and every check on the type and on the file passes
ConflictCase ==
    /\ result.op = "Writer.open"
    /\ wcall.include_fields.given /\ wcall.exclude_fields.given
    /\ open_checks(wcall.path_before, wcall.disk_before, wcall.dataclass_type, wcall.mode,
                   wcall.overwrite, wcall.delimiter, wcall.comment_prefix).exc = Ok

C4_ConflictBeforeIO ==
    ConflictCase =>
        /\ IsConflictingProjection(result.exc)
        /\ Len(streams) = wcall.streams_before
        /\ path = wcall.path_before
        /\ disk = wcall.disk_before

(***************************************************************************)
(* C5  The delimiter passed to open is the delimiter of the output: the    *)
(* header written in WRITE mode is delimiter.join(projection) + newline    *)
(* and every row written joins its values with that delimiter.             *)
(***************************************************************************)
C5_DelimiterOfOutput ==
    (wcall.made /\ writer.exists) =>
        /\ writer.delimiter = wcall.delimiter
        /\ wcall.mode = "write" =>
              FileText = writeheader(writer._fieldnames, wcall.delimiter)
                         \o rows_output(written, wcall.delimiter)

(***************************************************************************)
(* C6  Ordering rule: in the reader's constructor and in the writer's open *)
(* in APPEND mode every filesystem check runs before the header is read,   *)
(* so a missing, directory or inaccessible path fails with NotFound /      *)
(* IsDirectory / PermissionDenied, never with NoHeader or FieldMismatch.   *)
(***************************************************************************)
Unreadable(p) == ~exists(p) \/ ~is_file(p) \/ ~access_R_OK(p)

Unappendable(p) == Unreadable(p) \/ ~access_W_OK(p)

\* the failure kind the specification names for the path
FilesystemKind(e, p) ==
    IF ~exists(p) THEN IsNotFound(e)
    ELSE IF ~is_file(p) THEN IsIsDirectory(e)
    ELSE IsPermissionDenied(e)

ReaderOnUnreadable == result.op = "Reader" /\ Unreadable(rcall.path_before)

AppendOnUnappendable ==
    /\ result.op = "Writer.open"
    /\ wcall.mode = "append"
    /\ is_dataclass(wcall.dataclass_type)
    /\ Unappendable(wcall.path_before)

\* the specification as stated
C6_FilesystemKindsOnly ==
    /\ ReaderOnUnreadable =>
          /\ FilesystemKind(result.exc, rcall.path_before)
          /\ Len(streams) = rcall.streams_before
    /\ AppendOnUnappendable =>
          /\ FilesystemKind(result.exc, wcall.path_before)
          /\ Len(streams) = wcall.streams_before

\* a writable, unreadable file of length zero: APPEND tests emptiness first
EmptyBeforeUnreadable(call) ==
    /\ is_file(call.path_before) /\ access_W_OK(call.path_before)
    /\ Len(call.disk_before) = 0

\* C6 as amended: the same, except that APPEND on a writable, unreadable,
\* zero-length file fails with EmptyFile; in every case no stream was opened
\* (the header was not read) and the failure is not NoHeader or FieldMismatch
C6_FilesystemChecksFirst ==
    /\ ReaderOnUnreadable =>
          /\ FilesystemKind(result.exc, rcall.path_before)
          /\ Len(streams) = rcall.streams_before
    /\ AppendOnUnappendable =>
          /\ IF EmptyBeforeUnreadable(wcall)
             THEN IsEmptyFile(result.exc)
             ELSE FilesystemKind(result.exc, wcall.path_before)
          /\ ~IsNoHeader(result.exc) /\ ~IsFieldMismatch(result.exc)
          /\ Len(streams) = wcall.streams_before

\* APPEND with schema (a, b) on an unreadable file whose header is `b`
C6_Witness ==
    /\ AppendOnUnappendable
    /\ is_file(wcall.path_before) /\ access_W_OK(wcall.path_before)
    /\ wcall.disk_before = << "b", NL >>
    /\ wcall.dataclass_type = AB
    /\ IsPermissionDenied(result.exc)

(***************************************************************************)
(* C7  APPEND on an existing, writable, zero-length file fails with        *)
(* EmptyFile before any stream is opened and before any write: the file is *)
(* still empty and no writer is yielded.                                   *)
(***************************************************************************)
EmptyAppendCase ==
    /\ result.op = "Writer.open"
    /\ wcall.mode = "append"
    /\ is_dataclass(wcall.dataclass_type)
    /\ is_file(wcall.path_before) /\ access_W_OK(wcall.path_before)
    /\ Len(wcall.disk_before) = 0

C7_AppendToEmptyFile ==
    EmptyAppendCase =>
        /\ IsEmptyFile(result.exc)
        /\ Len(streams) = wcall.streams_before
        /\ disk = EmptyStr /\ path = wcall.path_before
        /\ ~writer.exists /\ written = << >>

C7_Witness == EmptyAppendCase /\ IsEmptyFile(result.exc) /\ ~access_R_OK(wcall.path_before)

(***************************************************************************)
(* C8  In APPEND mode no header is written and the existing content is     *)
(* kept: after a successful open and k successful writes, what the file    *)
(* holds (once the stream has flushed it: at the latest at scope exit) is  *)
(* its content before the open followed by the k new row lines in order.   *)
(***************************************************************************)
C8_AppendKeepsContent ==
    OpenedIn("append") =>
        /\ FileText = wcall.disk_before \o rows_output(written, writer.delimiter)
        /\ WriterClosed =>
              /\ disk = wcall.disk_before \o rows_output(written, writer.delimiter)
              /\ Len(readlines(SubSeq(disk, Len(wcall.disk_before) + 1, Len(disk))))
                    = Len(written)

C8_Witness ==
    /\ OpenedIn("append") /\ WriterClosed
    /\ Len(written) >= 2
    /\ written[1] # written[2]
    /\ Len(readlines(wcall.disk_before)) >= 2

(***************************************************************************)
(* C9  Every header-mismatch failure, of the reader and of the writer in   *)
(* APPEND mode, carries the schema's field list and the file's field list. *)
(***************************************************************************)
MessageShows(e, text) == \E i \in 1..Len(e.detail) : e.detail[i].text = text

ShowsBothFieldLists(e, call) ==
    /\ MessageShows(e, join(CommaSpace, fieldnames(call.dataclass_type)))
    /\ MessageShows(e, join(CommaSpace, HeaderBefore(call).fieldnames))

C9_MismatchShowsBothLists ==
    /\ (result.op = "Reader" /\ IsFieldMismatch(result.exc)) =>
          ShowsBothFieldLists(result.exc, rcall)
    /\ (result.op = "Writer.open" /\ IsFieldMismatch(result.exc)) =>
          ShowsBothFieldLists(result.exc, wcall)

\* the writer's half of the requirement: holds
C9_WriterMismatchShowsBothLists ==
    (result.op = "Writer.open" /\ IsFieldMismatch(result.exc)) =>
        ShowsBothFieldLists(result.exc, wcall)

(***************************************************************************)
(* C10  On every way out of a with block (completion, early return, an     *)
(* exception raised in the block, and a failure of the writer's            *)
(* constructor after fout was opened) the stream is closed when the block  *)
(* is left, exactly once, and no stream of the instance stays open.        *)
(***************************************************************************)
ClosedOnce(stream) == stream.closed /\ stream.closes = 1

C10_StreamsReleased ==
    /\ pc = "writer" => ~streams[writer._fout].closed
    /\ pc # "writer" =>
          \A i \in 1..Len(streams) : streams[i].mode \in {"w", "a"} => ClosedOnce(streams[i])
    /\ (pc = "reader" /\ reader.exists) => ~streams[reader._fin].closed
    /\ (pc # "reader" /\ reader.exists) => ClosedOnce(streams[reader._fin])

\* both scopes were entered; the reader's block was left by an exception
C10_Witness ==
    /\ writer.exists /\ reader.exists
    /\ result = [op |-> "Reader.exit", exc |-> BlockException]
    /\ Len(written) >= 1 /\ Len(records) >= 1

(***************************************************************************)
(* C11  Once the reader's scope has been left its stream is closed for     *)
(* good: every later iteration step fails with the closed-stream error,    *)
(* yields no record, does not signal the end of the sequence and does not  *)
(* move the reader, however many rows were consumed before.                *)
(***************************************************************************)
IsUseAfterClose(e) == e = ClosedFile

ReaderClosed == reader.exists /\ streams[reader._fin].closed

C11_ClosedReaderIsTerminal ==
    /\ [](ReaderClosed /\ result.op = "next" => IsUseAfterClose(result.exc))
    /\ [][ReaderClosed => /\ ReaderClosed'
                          /\ records' = records
                          /\ reader' = reader]_vars

\* a step after the close, on a reader that had yielded a record and had rows left
C11_Witness ==
    /\ ReaderClosed
    /\ result = [op |-> "next", exc |-> ClosedFile]
    /\ Len(records) >= 1
    /\ reader.pos < Len(readlines(disk))

(***************************************************************************)
(* C12  Once the writer's scope has been left, every write and every       *)
(* writeall of correctly typed instances fails with the closed-stream      *)
(* error and changes neither the file nor the stream; the stream never     *)
(* reopens.                                                                *)
(***************************************************************************)
C12_ClosedWriterIsTerminal ==
    [][WriterClosed =>
        /\ WriterClosed'
        /\ disk' = disk
        /\ \A inst \in Instances :
              (isinstance(inst, writer._dataclass_type) /\ Write(inst)) =>
                  /\ IsUseAfterClose(result'.exc)
                  /\ streams' = streams
        /\ \A batch \in Batches :
              (/\ batch # << >>
               /\ \A i \in 1..Len(batch) : isinstance(batch[i], writer._dataclass_type)
               /\ WriteAll(batch)) =>
                  /\ IsUseAfterClose(result'.exc)
                  /\ streams' = streams]_vars

\* a write after the close, on a writer that had written a row
C12_Witness ==
    /\ WriterClosed
    /\ result = [op |-> "write", exc |-> ClosedFile]
    /\ Len(written) >= 1

(***************************************************************************)
(* C13  write on an open writer: an instance of another type is rejected   *)
(* with the type error, nothing is appended, the rows written before stay  *)
(* and the writer stays open; an instance of the writer's type appends     *)
(* exactly one line, its values for the projection's fields in the         *)
(* projection's order.                                                     *)
(***************************************************************************)
IsTypeMismatch(e) == e.exc = "ValueError" /\ e.msg = "Must provide instances of"

\* the values of the instance for the fields, in their order, as one line
ValuesLine(inst, fields, d) ==
    join(<< d >>, [i \in 1..Len(fields) |-> to_text(attr(inst, writer._dataclass_type, fields[i]))])
    \o LineTerminator

C13_WriteTypeChecked ==
    [][\A inst \in Instances :
        (pc = "writer" /\ Write(inst)) =>
            IF ~isinstance(inst, wcall.dataclass_type)
            THEN /\ IsTypeMismatch(result'.exc)
                 /\ streams' = streams /\ disk' = disk /\ written' = written
                 /\ ~WriterClosed'
            ELSE /\ result'.exc = Ok
                 /\ streams'[writer._fout].buf =
                        streams[writer._fout].buf
                        \o ValuesLine(inst, Projection(wcall).output_fieldnames,
                                      writer.delimiter)]_vars

\* a rejected write after a successful one, in a scope with a reordering projection
C13_Witness ==
    /\ pc = "writer"
    /\ result.op = "write" /\ IsTypeMismatch(result.exc)
    /\ Len(written) >= 1
    /\ wcall.include_fields = Some(<< FieldB, FieldA >>)

(***************************************************************************)
(* C14  writeall has the effect of write called once per instance in       *)
(* order and is not atomic: when the i-th instance fails, the rows of the  *)
(* instances before it are written and stay, the i-th and the later ones   *)
(* write nothing, and the error raised is the one of the i-th.             *)
(***************************************************************************)
\* the position of the first instance of the batch that write rejects, or Len + 1
FirstFailure(batch) ==
    LET bad == {i \in 1..Len(batch) :
                   DataclassWriter_write(writer, streams[writer._fout], batch[i]).exc # Ok}
    IN  IF bad = {} THEN Len(batch) + 1 ELSE CHOOSE i \in bad : \A j \in bad : i <= j

\* what write appends for each of the instances in turn
RECURSIVE WrittenOneByOne(_)
WrittenOneByOne(instances) ==
    IF instances = << >> THEN EmptyStr
    ELSE DataclassWriter_write(writer, streams[writer._fout], Head(instances)).out
         \o WrittenOneByOne(Tail(instances))

C14_WriteAllIsWriteInOrder ==
    [][\A batch \in Batches :
        (result'.op = "writeall" /\ WriteAll(batch)) =>
            LET i == FirstFailure(batch) IN
            /\ written' = written \o SubSeq(batch, 1, i - 1)
            /\ streams'[writer._fout].buf =
                   streams[writer._fout].buf \o WrittenOneByOne(SubSeq(batch, 1, i - 1))
            /\ result'.exc = IF i > Len(batch) THEN Ok
                             ELSE DataclassWriter_write(writer, streams[writer._fout],
                                                        batch[i]).exc]_vars

\* a batch that failed at its second instance, after the row of the first
C14_Witness ==
    /\ pc = "writer"
    /\ result.op = "writeall" /\ IsTypeMismatch(result.exc)
    /\ result.count = 1
    /\ Len(written) >= 1

(***************************************************************************)
(* C15  The writer's projection is the schema's fieldnames in declared     *)
(* order when no option is given, include_fields as given (subset and      *)
(* order) when it is given, and the declared fieldnames without the        *)
(* members of exclude_fields when that is given.  A name that is no        *)
(* fieldname of the schema fails the construction with an error that names *)
(* the invalid fields.  The header and every row hold exactly the          *)
(* projection's fields in its order.                                       *)
(***************************************************************************)
Members(seq) == {seq[i] : i \in 1..Len(seq)}

Keep(seq, set) == SelectSeq(seq, LAMBDA x : x \in set)

ExpectedProjection(call) ==
    IF call.include_fields.given THEN call.include_fields.names
    ELSE IF call.exclude_fields.given
    THEN Keep(fieldnames(call.dataclass_type),
              Members(fieldnames(call.dataclass_type)) \ Members(call.exclude_fields.names))
    ELSE fieldnames(call.dataclass_type)

\* the names the call gives that the schema does not have, in the order given
InvalidNames(call) ==
    LET given == IF call.include_fields.given THEN call.include_fields.names
                 ELSE call.exclude_fields.names
    IN  Keep(given, Members(given) \ Members(fieldnames(call.dataclass_type)))

IsUnknownField(e) ==
    /\ e.exc = "ValueError"
    /\ e.msg = "One or more of the specified fields are not attributes on the dataclass"

\* the output stream was opened by the call: every check before it passed
OutputOpened ==
    \E i \in (wcall.streams_before + 1)..Len(streams) : streams[i].mode \in {"w", "a"}

OneOptionAtMost == ~(wcall.include_fields.given /\ wcall.exclude_fields.given)

RECURSIVE RowLines(_, _, _)
RowLines(instances, fields, d) ==
    IF instances = << >> THEN EmptyStr
    ELSE ValuesLine(Head(instances), fields, d) \o RowLines(Tail(instances), fields, d)

C15_Projection ==
    (wcall.made /\ OutputOpened /\ OneOptionAtMost) =>
        IF InvalidNames(wcall) # << >>
        THEN /\ ~writer.exists
             /\ (result.op = "Writer.open" =>
                    /\ IsUnknownField(result.exc)
                    /\ MessageShows(result.exc, join(CommaSpace, InvalidNames(wcall))))
        ELSE /\ writer.exists
             /\ writer._fieldnames = ExpectedProjection(wcall)
             /\ FileText =
                   (IF wcall.mode = "write"
                    THEN join(<< writer.delimiter >>, ExpectedProjection(wcall))
                         \o LineTerminator
                    ELSE wcall.disk_before)
                   \o RowLines(written, ExpectedProjection(wcall), writer.delimiter)

\* a reordering projection with a header and two rows written
C15_Witness ==
    /\ OpenedIn("write") /\ WriterClosed
    /\ wcall.include_fields = Some(<< FieldB, FieldA >>)
    /\ ~wcall.exclude_fields.given
    /\ Len(written) >= 2

(***************************************************************************)
(* C16  A data row whose number of tokens differs from the number of       *)
(* header fieldnames is never turned into a record: the iteration step     *)
(* that takes it fails, and nothing is padded or dropped silently.         *)
(***************************************************************************)
\* the row the next iteration step of the open reader takes
NextRow == DictReader_next(readlines(disk), reader.pos, reader.delimiter)

Misshapen(row) == Len(row) # Len(reader._header.fieldnames)

IsRowError(e) == e # Ok /\ e # StopIteration

C16_MisshapenRowFails ==
    [][(pc = "reader" /\ reader'.pos # reader.pos /\ ~NextRow.stop /\ Misshapen(NextRow.row))
        => (records' = records /\ IsRowError(result'.exc))]_vars

(***************************************************************************)
(* C17  assert_file_is_writable decides by priority and changes nothing:   *)
(* an existing path without overwrite is FileExistsError (a directory      *)
(* too); with overwrite, a path that is no regular file is                 *)
(* IsADirectoryError and an unwritable file PermissionError; an absent     *)
(* path with no parent directory is FileNotFoundError, with an unwritable  *)
(* parent PermissionError; everything else passes.                         *)
(***************************************************************************)
WritableOutcome(p, overwrite) ==
    CASE p.kind # "absent" /\ ~overwrite -> "FileExistsError"
      [] p.kind = "dir" /\ overwrite -> "IsADirectoryError"
      [] p.kind = "file" /\ overwrite /\ ~p.writable -> "PermissionError"
      [] p.kind = "absent" /\ ~p.parent_exists -> "FileNotFoundError"
      [] p.kind = "absent" /\ p.parent_exists /\ ~p.parent_writable -> "PermissionError"
      [] OTHER -> "None"

C17_WritablePriority ==
    [][\A overwrite \in BOOLEAN :
        AssertFileIsWritable(overwrite) =>
            /\ result'.exc.exc = WritableOutcome(path, overwrite)
            /\ path' = path /\ disk' = disk /\ streams' = streams]_vars

\* an unwritable directory without overwrite: the first rule decides
C17_Witness ==
    /\ result.op = "assert_file_is_writable"
    /\ result.exc.exc = "FileExistsError"
    /\ path.kind = "dir" /\ ~path.writable

(***************************************************************************)
(* C18  Every validation, the one of the projection's names included, runs *)
(* before anything destructive: when open in WRITE mode fails because an   *)
(* include_fields or exclude_fields name is no fieldname of the schema, an *)
(* existing target keeps its content and an absent target is not created.  *)
(***************************************************************************)
C18_UnknownFieldBeforeDestruction ==
    (result.op = "Writer.open" /\ wcall.mode = "write" /\ IsUnknownField(result.exc)) =>
        /\ path = wcall.path_before
        /\ disk = wcall.disk_before

(***************************************************************************)
(* C19  The header parse takes as preface exactly the lines that are empty *)
(* once the trailing newline is trimmed or that start with the comment     *)
(* prefix; it finds no header exactly when every line is preface;          *)
(* otherwise it returns the preface lines in order, verbatim but for the   *)
(* newline, and the first other line split on the delimiter with every     *)
(* token kept as it is, and takes no line after that one.                  *)
(***************************************************************************)
TrimNewline(line) ==
    IF line # EmptyStr /\ line[Len(line)] = NL THEN SubSeq(line, 1, Len(line) - 1) ELSE line

IsPreface(line, comment_prefix) ==
    TrimNewline(line) = EmptyStr \/ startswith(line, comment_prefix)

\* the lines before the first one that is no preface
PrefaceCount(lines, comment_prefix) ==
    LET other == {i \in 1..Len(lines) : ~IsPreface(lines[i], comment_prefix)} IN
    IF other = {} THEN Len(lines) ELSE (CHOOSE i \in other : \A j \in other : i <= j) - 1

ExpectedHeader(lines, delimiter, comment_prefix) ==
    LET n == PrefaceCount(lines, comment_prefix) IN
    IF n = Len(lines) THEN NoHeader(n)
    ELSE [found |-> TRUE,
          preface |-> [i \in 1..n |-> TrimNewline(lines[i])],
          fieldnames |-> split(TrimNewline(lines[n + 1]), delimiter),
          consumed |-> n + 1]

C19_HeaderParse ==
    /\ reader.exists =>
          reader._header = ExpectedHeader(readlines(rcall.disk_before), rcall.delimiter,
                                          rcall.comment_prefix)
    /\ (result.op = "Reader" /\ IsNoHeader(result.exc)) =>
          ~ExpectedHeader(readlines(rcall.disk_before), rcall.delimiter,
                          rcall.comment_prefix).found

(***************************************************************************)
(* C20  Row errors are lazy and local: the reader opens whatever the data  *)
(* rows hold; each iteration step takes one row; the records returned are  *)
(* the conversions of the rows taken so far that convert, in order; and a  *)
(* conversion error is raised by the very step that takes the failing row. *)
(***************************************************************************)
\* the rows the csv reader makes of the lines from position pos up to position upto
RECURSIVE RowsBetween(_, _, _, _)
RowsBetween(lines, pos, upto, delimiter) ==
    IF pos >= upto THEN << >>
    ELSE LET r == DictReader_next(lines, pos, delimiter) IN
         IF r.stop THEN << >>
         ELSE << r.row >> \o RowsBetween(lines, r.pos, upto, delimiter)

\* the data rows the reader has taken so far
ConsumedRows ==
    RowsBetween(readlines(disk), reader._header.consumed, reader.pos, reader.delimiter)

Converts(row) == _row_to_dataclass(row, reader.dataclass_type).exc = Ok

RECURSIVE Conversions(_)
Conversions(rows) ==
    IF rows = << >> THEN << >>
    ELSE (IF Converts(Head(rows))
          THEN << _row_to_dataclass(Head(rows), reader.dataclass_type).instance >>
          ELSE << >>)
         \o Conversions(Tail(rows))

IsCoercionError(e) ==
    e.msg \in {"invalid literal for int() with base 10", "int() argument must be a string"}

\* the call names a readable file whose header is the schema's field list
ReadableWithHeader ==
    /\ rcall.made
    /\ rcall.path_before.kind = "file" /\ rcall.path_before.readable
    /\ is_dataclass(rcall.dataclass_type)
    /\ HeaderBefore(rcall).found
    /\ HeaderBefore(rcall).fieldnames = fieldnames(rcall.dataclass_type)

C20_RowErrorsAreLazy ==
    /\ [](ReadableWithHeader => reader.exists)
    /\ [](reader.exists =>
            /\ records = Conversions(ConsumedRows)
            /\ (result.op = "next" /\ IsCoercionError(result.exc)) =>
                  /\ ConsumedRows # << >>
                  /\ ~Converts(ConsumedRows[Len(ConsumedRows)]))
    /\ [][(reader.exists /\ reader'.pos # reader.pos) => reader'.pos = NextRow.pos]_vars

\* the second row failed after the first was returned, with a third row left
C20_Witness ==
    /\ pc = "reader"
    /\ result.op = "next" /\ IsCoercionError(result.exc)
    /\ Len(records) = 1
    /\ Len(ConsumedRows) = 2
    /\ reader.pos < Len(readlines(disk))

(***************************************************************************)
(* C21  A reader whose construction fails after the file was opened (no    *)
(* header found, or a header that differs from the schema's fieldnames)    *)
(* leaves no stream open: the stream opened by the constructor is closed   *)
(* before the error reaches the caller.                                    *)
(***************************************************************************)
ReaderConstructionFailed == result.op = "Reader" /\ result.exc # Ok

C21_FailedReaderLeavesNoStream ==
    ReaderConstructionFailed =>
        \A i \in (rcall.streams_before + 1)..Len(streams) : streams[i].closed

(***************************************************************************)
(* C22  The projection of a constructed writer holds only fieldnames of    *)
(* the schema and each of them at most once, whatever include_fields or    *)
(* exclude_fields passed the validation; so the header written in WRITE    *)
(* mode has no column twice.                                               *)
(***************************************************************************)
NoDuplicates(seq) == \A i, j \in 1..Len(seq) : seq[i] = seq[j] => i = j

\* the first line of the text written in WRITE mode, split into its columns
HeaderWritten == split(TrimNewline(readlines(FileText)[1]), writer.delimiter)

C22_ProjectionHasNoDuplicates ==
    writer.exists =>
        /\ Members(writer._fieldnames) \subseteq Members(fieldnames(wcall.dataclass_type))
        /\ NoDuplicates(writer._fieldnames)
        /\ wcall.mode = "write" => NoDuplicates(HeaderWritten)

\* the part that holds: without options the header written is the schema's field list
C22_FullProjectionHeader ==
    (OpenedIn("write") /\ ~wcall.include_fields.given /\ ~wcall.exclude_fields.given) =>
        HeaderWritten = fieldnames(wcall.dataclass_type)

====
